---- MODULE Spec2Model ----
(***************************************************************************)
(* Model of utils/eeprom_metadata.py: the miniboot EEPROM image builder.   *)
(*                                                                         *)
(* One run of the script is modelled: the format gate (check_if_binary),   *)
(* the external avr-objcopy conversion, and generate_miniboot_header       *)
(* statement by statement.                                                 *)
(*                                                                         *)
(* Representation:                                                         *)
(*   bytes        sequences of integers 0..255                             *)
(*   file data    payloads, file contents and the image are run-length     *)
(*                encoded bytes: a sequence of runs <<byte, count>> in      *)
(*                which adjacent runs hold different bytes, so that a       *)
(*                payload of 65536 bytes is a single run                    *)
(*   str          sequences of Unicode code points                         *)
(*   paths        sequences of one-character strings                       *)
(*   Python int   big-endian base-256 digit sequences without leading      *)
(*                zeros (values reach 2^32, beyond TLC's integers);        *)
(*                <<>> is 0                                                 *)
(*   hex text     sequences of one-character strings "0".."f"              *)
(***************************************************************************)
EXTENDS Integers, Sequences, FiniteSets, TLC

VARIABLES
    binary_file,          \* args["file"]
    application_name,     \* args["appname"]
    output_file,          \* args["output"]
    print_header_result,  \* args["verbose"]
    dont_auto_convert,    \* args["dont_convert"]
    fs,                   \* the file system: path -> file
    pc,                   \* position of the run
    error,                \* the exception that ended the run, or "none"
    is_valid,             \* first result of check_if_binary
    new_filepath,         \* second result of check_if_binary
    ctime,                \* st_ctime of the binary (Python int)
    payload,              \* bytes read from the binary (file data)
    payload_size_hex,
    crc,                  \* crc32(payload) (Python int)
    crc_hex,
    header_hex,
    app_name,             \* the justified application name (str)
    app_hex,
    ctime_hex,
    current_epoch,        \* int(time()) (Python int)
    epoch_hex,
    eeprom_metadata,      \* the header (bytes)
    eeprom_payload,       \* header + payload (file data)
    subrun_calls,         \* history: invocations of avr-objcopy
    read_path,            \* history: the path opened with "rb"
    write_opens,          \* history: successful opens of output_file with "w+b"
    fs0,                  \* history: the file system when the run started
    stdout                \* what the run printed

vars == <<binary_file, application_name, output_file, print_header_result,
          dont_auto_convert, fs, pc, error, is_valid, new_filepath, ctime,
          payload, payload_size_hex, crc, crc_hex, header_hex, app_name,
          app_hex, ctime_hex, current_epoch, epoch_hex, eeprom_metadata,
          eeprom_payload, subrun_calls, read_path, write_opens, fs0, stdout>>

args == <<binary_file, application_name, output_file, print_header_result,
          dont_auto_convert>>

locals == <<ctime, payload, payload_size_hex, crc, crc_hex, header_hex,
            app_name, app_hex, ctime_hex, current_epoch, epoch_hex,
            eeprom_metadata, eeprom_payload>>

history == <<subrun_calls, read_path, write_opens, fs0>>

-----------------------------------------------------------------------------
(* Bounds of the model *)

\* longest arbitrary payload enumerated (bytes)
MaxPayloadLen == 2

\* longest application name enumerated (characters)
MaxNameLen == 11

-----------------------------------------------------------------------------
(* Program constants *)

\* "ABminiboot"
MINIBOOT_HEADER_PREAMBLE == <<65, 66, 109, 105, 110, 105, 98, 111, 111, 116>>

\* "APPNAME"
DEFAULT_APP_NAME == <<65, 80, 80, 78, 65, 77, 69>>

\* "output.eeprom"
DEFAULT_OUTPUT_FILE ==
    <<"o", "u", "t", "p", "u", "t", ".", "e", "e", "p", "r", "o", "m">>

\* width of the justified application name: ljust(10, " ")[:10]
NameWidth == 10

\* payload_size.to_bytes(2, "big")
SizeWidth == 2

\* crc.to_bytes(4, "big")
CrcWidth == 4

\* ctime.to_bytes(4, "big") and current_epoch.to_bytes(4, "big")
TimeWidth == 4

-----------------------------------------------------------------------------
(* Sequences *)

Min(a, b) == IF a < b THEN a ELSE b

Repeat(x, n) == [i \in 1..n |-> x]

Take(s, n) == SubSeq(s, 1, Min(n, Len(s)))

RECURSIVE Pow(_, _)
Pow(b, e) == IF e = 0 THEN 1 ELSE b * Pow(b, e - 1)

RECURSIVE Flatten(_)
Flatten(ss) == IF ss = <<>> THEN <<>> ELSE Head(ss) \o Flatten(Tail(ss))

-----------------------------------------------------------------------------
(* File data: run-length encoded bytes *)

\* a + b
DataCat(a, b) ==
    IF a = <<>> THEN b
    ELSE IF b = <<>> THEN a
    ELSE IF a[Len(a)][1] = b[1][1]
        THEN SubSeq(a, 1, Len(a) - 1)
             \o <<<<b[1][1], a[Len(a)][2] + b[1][2]>>>>
             \o Tail(b)
    ELSE a \o b

\* the file data holding the bytes s
RECURSIVE Data(_)
Data(s) ==
    IF s = <<>> THEN <<>>
    ELSE DataCat(Data(SubSeq(s, 1, Len(s) - 1)), <<<<s[Len(s)], 1>>>>)

\* the bytes of the file data d
Plain(d) == Flatten([k \in 1..Len(d) |-> Repeat(d[k][1], d[k][2])])

\* len(d)
RECURSIVE DataLen(_)
DataLen(d) == IF d = <<>> THEN 0 ELSE d[1][2] + DataLen(Tail(d))

\* d[:n]
RECURSIVE DataTake(_, _)
DataTake(d, n) ==
    IF n <= 0 \/ d = <<>> THEN <<>>
    ELSE IF d[1][2] >= n THEN <<<<d[1][1], n>>>>
    ELSE <<d[1]>> \o DataTake(Tail(d), n - d[1][2])

\* d[n:]
RECURSIVE DataDrop(_, _)
DataDrop(d, n) ==
    IF n <= 0 \/ d = <<>> THEN d
    ELSE IF d[1][2] > n THEN <<<<d[1][1], d[1][2] - n>>>> \o Tail(d)
    ELSE DataDrop(Tail(d), n - d[1][2])

-----------------------------------------------------------------------------
(* Python integers and int.to_bytes *)

\* the Python int with value n, for n >= 0 within TLC's integers
RECURSIVE Digits(_)
Digits(n) == IF n = 0 THEN <<>> ELSE Append(Digits(n \div 256), n % 256)

\* int.to_bytes(width, "big") raises OverflowError ("int too big to convert")
\* when the value needs more than width bytes
to_bytes_fits(d, width) == Len(d) <= width

\* int.to_bytes(width, "big"), when it does not raise
to_bytes(d, width) == Repeat(0, width - Len(d)) \o d

-----------------------------------------------------------------------------
(* binascii.hexlify and binascii.unhexlify *)

HexDigits ==
    <<"0", "1", "2", "3", "4", "5", "6", "7",
      "8", "9", "a", "b", "c", "d", "e", "f">>

HexValue(c) == CHOOSE v \in 0..15 : HexDigits[v + 1] = c

hexlify(b) ==
    [k \in 1..(2 * Len(b)) |->
        IF k % 2 = 1 THEN HexDigits[(b[(k + 1) \div 2] \div 16) + 1]
                     ELSE HexDigits[(b[k \div 2] % 16) + 1]]

unhexlify(h) ==
    [k \in 1..(Len(h) \div 2) |->
        16 * HexValue(h[2 * k - 1]) + HexValue(h[2 * k])]

-----------------------------------------------------------------------------
(* bytes(s, "utf-8") *)

IsSurrogate(c) == c >= 55296 /\ c <= 57343

\* the UTF-8 encoding of one code point
utf8_char(c) ==
    IF c < 128 THEN <<c>>
    ELSE IF c < 2048 THEN <<192 + (c \div 64), 128 + (c % 64)>>
    ELSE IF c < 65536
        THEN <<224 + (c \div 4096), 128 + ((c \div 64) % 64), 128 + (c % 64)>>
    ELSE <<240 + (c \div 262144), 128 + ((c \div 4096) % 64),
           128 + ((c \div 64) % 64), 128 + (c % 64)>>

\* the strict utf-8 codec raises UnicodeEncodeError on a lone surrogate
utf8_encodable(s) == \A i \in 1..Len(s) : ~IsSurrogate(s[i])

utf8_encode(s) == Flatten([i \in 1..Len(s) |-> utf8_char(s[i])])

-----------------------------------------------------------------------------
(* str.ljust and slicing *)

ljust(s, width, fill) ==
    IF Len(s) >= width THEN s ELSE s \o Repeat(fill, width - Len(s))

\* str(application_name).ljust(10, " ")[:10]
justify_name(name) == Take(ljust(name, NameWidth, 32), NameWidth)

-----------------------------------------------------------------------------
(* binascii.crc32: CRC-32 of zlib, reflected, polynomial 0xEDB88320 *)

\* 0xEDB88320 as two 16-bit halves (32-bit values exceed TLC's integers)
CrcPolyHi == 60856

CrcPolyLo == 33568

RECURSIVE Xor(_, _)
Xor(a, b) ==
    IF a = 0 THEN b
    ELSE IF b = 0 THEN a
    ELSE ((a + b) % 2) + 2 * Xor(a \div 2, b \div 2)

\* the register is <<high half, low half>>, 16 bits each
CrcInit == <<65535, 65535>>

\* one bit: reg = (reg >> 1) ^ (0xEDB88320 if reg & 1 else 0)
CrcShift(reg) ==
    LET hi == reg[1] \div 2
        lo == (reg[2] \div 2) + 32768 * (reg[1] % 2)
    IN  IF reg[2] % 2 = 1
        THEN <<Xor(hi, CrcPolyHi), Xor(lo, CrcPolyLo)>>
        ELSE <<hi, lo>>

RECURSIVE CrcShifts(_, _)
CrcShifts(reg, n) == IF n = 0 THEN reg ELSE CrcShifts(CrcShift(reg), n - 1)

\* the table of zlib's byte-wise algorithm: entry b is b shifted eight times
CrcTable(b) == CrcShifts(<<0, b>>, 8)

\* one byte: reg = table[(reg ^ byte) & 0xFF] ^ (reg >> 8)
CrcByte(reg, byte) ==
    LET entry == CrcTable(Xor(reg[2] % 256, byte))
    IN  <<Xor(reg[1] \div 256, entry[1]),
          Xor((reg[2] \div 256) + 256 * (reg[1] % 256), entry[2])>>

\* the register after the first n bytes of data
RECURSIVE CrcUpdate(_, _)
CrcUpdate(data, n) ==
    IF n = 0 THEN CrcInit ELSE CrcByte(CrcUpdate(data, n - 1), data[n])

\* the four bytes of the complemented register, most significant first
CrcBytes(reg) ==
    LET hi == 65535 - reg[1]
        lo == 65535 - reg[2]
    IN  <<hi \div 256, hi % 256, lo \div 256, lo % 256>>

RECURSIVE StripZeros(_)
StripZeros(b) ==
    IF b # <<>> /\ Head(b) = 0 THEN StripZeros(Tail(b)) ELSE b

\* crc32(data) for file data: an unsigned 32-bit Python int
crc32(data) == StripZeros(CrcBytes(CrcUpdate(Plain(data), DataLen(data))))

-----------------------------------------------------------------------------
(* os.path.splitext *)

\* the last index of c in p, 0 when absent (str.rfind, 1-based)
rfind(p, c) ==
    IF \E i \in 1..Len(p) : p[i] = c
    THEN CHOOSE i \in 1..Len(p) :
            p[i] = c /\ \A j \in (i + 1)..Len(p) : p[j] # c
    ELSE 0

\* splitext(p): <<root, ext>>; leading dots of the file name are no extension
splitext(p) ==
    LET sepIndex == rfind(p, "/")
        dotIndex == rfind(p, ".")
    IN  IF dotIndex > sepIndex
           /\ \E k \in (sepIndex + 1)..(dotIndex - 1) : p[k] # "."
        THEN <<SubSeq(p, 1, dotIndex - 1), SubSeq(p, dotIndex, Len(p))>>
        ELSE <<p, <<>>>>

ExtBin == <<".", "b", "i", "n">>

ExtHex == <<".", "h", "e", "x">>

-----------------------------------------------------------------------------
(* The file system *)

Absent == [exists |-> FALSE, readable |-> FALSE, writable |-> TRUE, data |-> <<>>]

Regular(d) == [exists |-> TRUE, readable |-> TRUE, writable |-> TRUE, data |-> d]

ReadOnly(d) == [exists |-> TRUE, readable |-> TRUE, writable |-> FALSE, data |-> d]

Unreadable(d) == [exists |-> TRUE, readable |-> FALSE, writable |-> FALSE, data |-> d]

\* a path whose directory does not exist
NoDirectory == [exists |-> FALSE, readable |-> FALSE, writable |-> FALSE, data |-> <<>>]

\* open(path, "w+b") creates or truncates; it needs read and write permission
CanOpenWrite(f) == f.writable /\ (f.exists => f.readable)

-----------------------------------------------------------------------------
(* Inputs of a run *)

FwBin == <<"f", "w", ".", "b", "i", "n">>

FwHex == <<"f", "w", ".", "h", "e", "x">>

FwElf == <<"f", "w", ".", "e", "l", "f">>

DotHex == <<".", "h", "e", "x">>

NoPath == <<>>

InputPaths == {FwBin, FwHex, FwElf, DotHex, NoPath}

OutputPaths == {DEFAULT_OUTPUT_FILE, FwBin}

\* the paths a run can touch: the input, the output, the converter's output
AllPaths ==
    InputPaths \cup OutputPaths
    \cup {splitext(p)[1] \o ExtBin :
            p \in {q \in InputPaths : splitext(q)[2] = ExtHex}}

PayloadBytes == {0, 255}

\* "123456789", the check input of CRC catalogues
CheckVector == <<49, 50, 51, 52, 53, 54, 55, 56, 57>>

\* the shortest payload whose length does not fit SizeWidth bytes: 65536 zeros
BigPayload == <<<<0, Pow(256, SizeWidth)>>>>

Payloads ==
    {Data(s) : s \in UNION {[1..n -> PayloadBytes] : n \in 0..MaxPayloadLen}}
    \cup {Data(CheckVector), BigPayload}

\* ":00000001FF", an Intel-HEX end-of-file record
HexText == <<58, 48, 48, 48, 48, 48, 48, 48, 49, 70, 70>>

OldData == <<238, 238, 238>>

\* the first n characters of "1234567890AB..."
BaseName(n) ==
    [i \in 1..n |-> IF i <= 9 THEN 48 + i ELSE IF i = 10 THEN 48 ELSE 54 + i]

\* e-acute (2 bytes), euro sign (3 bytes), a lone surrogate (as surrogateescape
\* gives for an undecodable argument byte)
NonAscii == {233, 8364, 56448}

SubstLens == {1, NameWidth, MaxNameLen}

Names ==
    {BaseName(n) : n \in 0..MaxNameLen}
    \cup {[BaseName(n) EXCEPT ![n] = c] : n \in SubstLens, c \in NonAscii}
    \cup {DEFAULT_APP_NAME}

\* st_ctime values: one of three bytes and 2^32
CTimes == {<<1, 2, 3>>, <<1, 0, 0, 0, 0>>}

\* int(time()) values: one of four bytes and 2^32
Nows == {<<5, 6, 7, 8>>, <<1, 0, 0, 0, 0>>}

InputFiles(p) ==
    IF p = NoPath THEN {Absent}
    ELSE IF splitext(p)[2] = ExtBin
        THEN {Absent, Unreadable(Data(<<0>>))} \cup {Regular(d) : d \in Payloads}
    ELSE IF splitext(p)[2] = ExtHex THEN {Absent, Regular(Data(HexText))}
    ELSE {Absent, Regular(Data(<<0>>))}

OutputFiles ==
    {Absent, Regular(Data(OldData)), ReadOnly(Data(OldData)), NoDirectory}

FileSystems(in, out) ==
    {[p \in AllPaths |->
        IF p = in THEN fin ELSE IF p = out THEN fout ELSE Absent] :
        fin \in InputFiles(in), fout \in OutputFiles}

Init ==
    /\ binary_file \in InputPaths
    /\ application_name \in Names
    /\ output_file \in OutputPaths
    /\ print_header_result \in BOOLEAN
    /\ dont_auto_convert \in BOOLEAN
    /\ fs \in FileSystems(binary_file, output_file)
    /\ fs0 = fs
    /\ pc = "main"
    /\ error = "none"
    /\ is_valid = FALSE
    /\ new_filepath = <<>>
    /\ ctime = <<>>
    /\ payload = <<>>
    /\ payload_size_hex = <<>>
    /\ crc = <<>>
    /\ crc_hex = <<>>
    /\ header_hex = <<>>
    /\ app_name = <<>>
    /\ app_hex = <<>>
    /\ ctime_hex = <<>>
    /\ current_epoch = <<>>
    /\ epoch_hex = <<>>
    /\ eeprom_metadata = <<>>
    /\ eeprom_payload = <<>>
    /\ subrun_calls = 0
    /\ read_path = <<>>
    /\ write_opens = 0
    /\ stdout = <<>>

-----------------------------------------------------------------------------
(* check_if_binary and the script body *)

\* mutant: the .hex branch converts although conversion is disallowed
check_if_binary_case_ignoring_flag(check, dont) ==
    LET file_ext == splitext(check)[2] IN
    IF file_ext = ExtBin THEN "bin"
    ELSE IF file_ext = ExtHex THEN "convert"
    ELSE "other"

\* mutant: the else branch returns True, check
check_if_binary_case_accepting_all(check, dont) ==
    LET file_ext == splitext(check)[2] IN
    IF file_ext = ExtBin THEN "bin"
    ELSE IF file_ext = ExtHex THEN (IF ~dont THEN "convert" ELSE "refuse")
    ELSE "bin"

\* the branch check_if_binary takes
check_if_binary_case(check, dont) ==
    LET file_ext == splitext(check)[2] IN
    IF file_ext = ExtBin THEN "bin"
    ELSE IF file_ext = ExtHex THEN (IF ~dont THEN "convert" ELSE "refuse")
    ELSE "other"

\* mutant: the .hex path itself is returned
converted_path_unchanged(check) == check

\* file_name + '.bin', the output of the converter and the path returned
converted_path(check) == splitext(check)[1] \o ExtBin

Raise(e) ==
    /\ error' = e
    /\ pc' = "aborted"

\* file_ext == ".bin": return True, check
CheckBin ==
    /\ pc = "main"
    /\ check_if_binary_case(binary_file, dont_auto_convert) = "bin"
    /\ is_valid' = TRUE
    /\ new_filepath' = binary_file
    /\ pc' = "checked"
    /\ UNCHANGED <<args, fs, error, locals, history, stdout>>

\* avr-objcopy -I ihex binary_file -O binary file_name.bin succeeds: it writes
\* the raw binary next to the input
CheckHexConvert ==
    /\ pc = "main"
    /\ check_if_binary_case(binary_file, dont_auto_convert) = "convert"
    /\ LET sibling == converted_path(binary_file) IN
        /\ fs[binary_file].readable
        /\ CanOpenWrite(fs[sibling])
        /\ \E d \in Payloads : fs' = [fs EXCEPT ![sibling] = Regular(d)]
        /\ new_filepath' = sibling
    /\ subrun_calls' = subrun_calls + 1
    /\ is_valid' = TRUE
    /\ pc' = "checked"
    /\ UNCHANGED <<args, error, locals, read_path, write_opens, fs0, stdout>>

\* avr-objcopy is not installed (FileNotFoundError) or exits non-zero
\* (CalledProcessError, check=True)
CheckHexConvertFails ==
    /\ pc = "main"
    /\ check_if_binary_case(binary_file, dont_auto_convert) = "convert"
    /\ subrun_calls' = subrun_calls + 1
    /\ \E e \in {"FileNotFoundError", "CalledProcessError"} : Raise(e)
    /\ UNCHANGED <<args, fs, is_valid, new_filepath, locals, read_path,
                   write_opens, fs0, stdout>>

\* raise ValueError('Given file was .hex, but not allowed to convert')
CheckHexRefused ==
    /\ pc = "main"
    /\ check_if_binary_case(binary_file, dont_auto_convert) = "refuse"
    /\ Raise("ValueError")
    /\ UNCHANGED <<args, fs, is_valid, new_filepath, locals, history, stdout>>

\* return False, check
CheckOther ==
    /\ pc = "main"
    /\ check_if_binary_case(binary_file, dont_auto_convert) = "other"
    /\ is_valid' = FALSE
    /\ new_filepath' = binary_file
    /\ pc' = "checked"
    /\ UNCHANGED <<args, fs, error, locals, history, stdout>>

\* if not is_valid: raise TypeError('Given file was not a .bin or a .hex')
MainRaise ==
    /\ pc = "checked"
    /\ ~is_valid
    /\ Raise("TypeError")
    /\ UNCHANGED <<args, fs, is_valid, new_filepath, locals, history, stdout>>

\* generate_miniboot_header(new_filepath, application_name, output_file, ...)
MainCall ==
    /\ pc = "checked"
    /\ is_valid
    /\ pc' = "stat"
    /\ UNCHANGED <<args, fs, error, is_valid, new_filepath, locals, history,
                   stdout>>

-----------------------------------------------------------------------------
(* generate_miniboot_header(binary_file = new_filepath, ...) *)

\* if not binary_file: return "" ; otherwise stat(binary_file) succeeds
BuilderStat ==
    /\ pc = "stat"
    /\ IF new_filepath = <<>>
       THEN /\ pc' = "done"
            /\ ctime' = ctime
       ELSE /\ fs[new_filepath].exists
            /\ \E t \in CTimes : ctime' = t
            /\ pc' = "read"
    /\ UNCHANGED <<args, fs, error, is_valid, new_filepath, payload,
                   payload_size_hex, crc, crc_hex, header_hex, app_name,
                   app_hex, ctime_hex, current_epoch, epoch_hex,
                   eeprom_metadata, eeprom_payload, history, stdout>>

\* stat(binary_file) raises FileNotFoundError
BuilderStatFails ==
    /\ pc = "stat"
    /\ new_filepath # <<>>
    /\ ~fs[new_filepath].exists
    /\ Raise("FileNotFoundError")
    /\ UNCHANGED <<args, fs, is_valid, new_filepath, locals, history, stdout>>

\* with open(binary_file, "rb") as binary: payload = binary.read()
ReadPayload ==
    /\ pc = "read"
    /\ fs[new_filepath].readable
    /\ payload' = fs[new_filepath].data
    /\ read_path' = new_filepath
    /\ pc' = "size"
    /\ UNCHANGED <<args, fs, error, is_valid, new_filepath, ctime,
                   payload_size_hex, crc, crc_hex, header_hex, app_name,
                   app_hex, ctime_hex, current_epoch, epoch_hex,
                   eeprom_metadata, eeprom_payload, subrun_calls, write_opens,
                   fs0, stdout>>

\* open(binary_file, "rb") raises PermissionError
ReadPayloadFails ==
    /\ pc = "read"
    /\ ~fs[new_filepath].readable
    /\ Raise("PermissionError")
    /\ UNCHANGED <<args, fs, is_valid, new_filepath, locals, history, stdout>>

\* payload_size = len(payload)
\* payload_size_hex = hexlify(payload_size.to_bytes(2, "big"))
\* the outcome: <<raises, payload_size_hex>>
encode_size(data) ==
    LET payload_size == Digits(DataLen(data)) IN
    IF to_bytes_fits(payload_size, SizeWidth)
    THEN <<FALSE, hexlify(to_bytes(payload_size, SizeWidth))>>
    ELSE <<TRUE, <<>>>>

EncodeSize ==
    /\ pc = "size"
    /\ ~encode_size(payload)[1]
    /\ payload_size_hex' = encode_size(payload)[2]
    /\ pc' = "crc"
    /\ UNCHANGED <<args, fs, error, is_valid, new_filepath, ctime, payload,
                   crc, crc_hex, header_hex, app_name, app_hex, ctime_hex,
                   current_epoch, epoch_hex, eeprom_metadata, eeprom_payload,
                   history, stdout>>

\* payload_size.to_bytes(2, "big") raises OverflowError
EncodeSizeFails ==
    /\ pc = "size"
    /\ encode_size(payload)[1]
    /\ Raise("OverflowError")
    /\ UNCHANGED <<args, fs, is_valid, new_filepath, locals, history, stdout>>

\* crc = crc32(payload); crc_hex = hexlify(crc.to_bytes(4, "big"))
ComputeCrc ==
    /\ pc = "crc"
    /\ crc' = crc32(payload)
    /\ crc_hex' = hexlify(to_bytes(crc', CrcWidth))
    /\ pc' = "name"
    /\ UNCHANGED <<args, fs, error, is_valid, new_filepath, ctime, payload,
                   payload_size_hex, header_hex, app_name, app_hex, ctime_hex,
                   current_epoch, epoch_hex, eeprom_metadata, eeprom_payload,
                   history, stdout>>

\* header_hex = hexlify(bytes(header_string, "utf-8"))
\* app_name = str(application_name).ljust(10, " ")[:10]
\* app_hex = hexlify(bytes(app_name, "utf-8"))
EncodeName ==
    /\ pc = "name"
    /\ header_hex' = hexlify(utf8_encode(MINIBOOT_HEADER_PREAMBLE))
    /\ app_name' = justify_name(application_name)
    /\ utf8_encodable(app_name')
    /\ app_hex' = hexlify(utf8_encode(app_name'))
    /\ pc' = "ctime"
    /\ UNCHANGED <<args, fs, error, is_valid, new_filepath, ctime, payload,
                   payload_size_hex, crc, crc_hex, ctime_hex, current_epoch,
                   epoch_hex, eeprom_metadata, eeprom_payload, history, stdout>>

\* bytes(app_name, "utf-8") raises UnicodeEncodeError
EncodeNameFails ==
    /\ pc = "name"
    /\ header_hex' = hexlify(utf8_encode(MINIBOOT_HEADER_PREAMBLE))
    /\ app_name' = justify_name(application_name)
    /\ ~utf8_encodable(app_name')
    /\ Raise("UnicodeEncodeError")
    /\ UNCHANGED <<args, fs, is_valid, new_filepath, ctime, payload,
                   payload_size_hex, crc, crc_hex, app_hex, ctime_hex,
                   current_epoch, epoch_hex, eeprom_metadata, eeprom_payload,
                   history, stdout>>

\* ctime_hex = hexlify(ctime.to_bytes(4, "big"))
EncodeCtime ==
    /\ pc = "ctime"
    /\ to_bytes_fits(ctime, TimeWidth)
    /\ ctime_hex' = hexlify(to_bytes(ctime, TimeWidth))
    /\ pc' = "time"
    /\ UNCHANGED <<args, fs, error, is_valid, new_filepath, ctime, payload,
                   payload_size_hex, crc, crc_hex, header_hex, app_name,
                   app_hex, current_epoch, epoch_hex, eeprom_metadata,
                   eeprom_payload, history, stdout>>

\* ctime.to_bytes(4, "big") raises OverflowError
EncodeCtimeFails ==
    /\ pc = "ctime"
    /\ ~to_bytes_fits(ctime, TimeWidth)
    /\ Raise("OverflowError")
    /\ UNCHANGED <<args, fs, is_valid, new_filepath, locals, history, stdout>>

\* current_epoch = int(time())
\* epoch_hex = hexlify(current_epoch.to_bytes(4, "big"))
EncodeEpoch ==
    /\ pc = "time"
    /\ \E now \in Nows :
        /\ to_bytes_fits(now, TimeWidth)
        /\ current_epoch' = now
        /\ epoch_hex' = hexlify(to_bytes(now, TimeWidth))
    /\ pc' = "assemble"
    /\ UNCHANGED <<args, fs, error, is_valid, new_filepath, ctime, payload,
                   payload_size_hex, crc, crc_hex, header_hex, app_name,
                   app_hex, ctime_hex, eeprom_metadata, eeprom_payload,
                   history, stdout>>

\* current_epoch.to_bytes(4, "big") raises OverflowError
EncodeEpochFails ==
    /\ pc = "time"
    /\ \E now \in Nows :
        /\ ~to_bytes_fits(now, TimeWidth)
        /\ current_epoch' = now
    /\ Raise("OverflowError")
    /\ UNCHANGED <<args, fs, is_valid, new_filepath, ctime, payload,
                   payload_size_hex, crc, crc_hex, header_hex, app_name,
                   app_hex, ctime_hex, epoch_hex, eeprom_metadata,
                   eeprom_payload, history, stdout>>

\* header_hex + app_hex + ctime_hex + epoch_hex + crc_hex + payload_size_hex
concat_fields(preamble, name, created, written, checksum, size) ==
    preamble \o name \o created \o written \o checksum \o size

\* eeprom_metadata = unhexlify(header_hex + ... + payload_size_hex)
\* eeprom_payload = eeprom_metadata + payload
Assemble ==
    /\ pc = "assemble"
    /\ eeprom_metadata' =
         unhexlify(concat_fields(header_hex, app_hex, ctime_hex, epoch_hex,
                                 crc_hex, payload_size_hex))
    /\ eeprom_payload' = DataCat(Data(eeprom_metadata'), payload)
    /\ pc' = "open"
    /\ UNCHANGED <<args, fs, error, is_valid, new_filepath, ctime, payload,
                   payload_size_hex, crc, crc_hex, header_hex, app_name,
                   app_hex, ctime_hex, current_epoch, epoch_hex, history,
                   stdout>>

\* mutant: the output file is opened before the image is assembled
open_output_before_assembly == "assemble"

\* the position at which open(output_file, "w+b") is executed
open_output_at == "open"

\* with open(output_file, "w+b") as firmware: the file is created or truncated
OpenOutput ==
    /\ pc = open_output_at
    /\ CanOpenWrite(fs[output_file])
    /\ fs' = [fs EXCEPT ![output_file] = Regular(<<>>)]
    /\ write_opens' = write_opens + 1
    /\ pc' = "write"
    /\ UNCHANGED <<args, error, is_valid, new_filepath, locals, subrun_calls,
                   read_path, fs0, stdout>>

\* open(output_file, "w+b") raises PermissionError, or FileNotFoundError when
\* the directory is missing
OpenOutputFails ==
    /\ pc = open_output_at
    /\ ~CanOpenWrite(fs[output_file])
    /\ Raise(IF fs[output_file].exists THEN "PermissionError"
                                       ELSE "FileNotFoundError")
    /\ UNCHANGED <<args, fs, is_valid, new_filepath, locals, history, stdout>>

\* firmware.write(eeprom_payload), and the file is closed
WriteImage ==
    /\ pc = "write"
    /\ fs' = [fs EXCEPT ![output_file] = Regular(eeprom_payload)]
    /\ pc' = "print"
    /\ UNCHANGED <<args, error, is_valid, new_filepath, locals, history,
                   stdout>>

\* firmware.write(eeprom_payload) raises OSError (no space left on the device):
\* a prefix of the image stays in the file
WriteImageFails ==
    /\ pc = "write"
    /\ \E n \in {0, DataLen(eeprom_payload) - 1} :
        fs' = [fs EXCEPT ![output_file] = Regular(DataTake(eeprom_payload, n))]
    /\ Raise("OSError")
    /\ UNCHANGED <<args, is_valid, new_filepath, locals, history, stdout>>

\* if print_header_result: print(...)
PrintSummary ==
    /\ pc = "print"
    /\ stdout' =
         IF print_header_result
         THEN <<MINIBOOT_HEADER_PREAMBLE, app_name, ctime, current_epoch, crc,
                DataLen(payload), DataLen(eeprom_payload), new_filepath,
                output_file>>
         ELSE <<>>
    /\ pc' = "done"
    /\ UNCHANGED <<args, fs, error, is_valid, new_filepath, locals, history>>

-----------------------------------------------------------------------------

Next ==
    \/ CheckBin
    \/ CheckHexConvert
    \/ CheckHexConvertFails
    \/ CheckHexRefused
    \/ CheckOther
    \/ MainRaise
    \/ MainCall
    \/ BuilderStat
    \/ BuilderStatFails
    \/ ReadPayload
    \/ ReadPayloadFails
    \/ EncodeSize
    \/ EncodeSizeFails
    \/ ComputeCrc
    \/ EncodeName
    \/ EncodeNameFails
    \/ EncodeCtime
    \/ EncodeCtimeFails
    \/ EncodeEpoch
    \/ EncodeEpochFails
    \/ Assemble
    \/ OpenOutput
    \/ OpenOutputFails
    \/ WriteImage
    \/ WriteImageFails
    \/ PrintSummary

Spec == Init /\ [][Next]_vars

-----------------------------------------------------------------------------
(* Properties *)

InputExt == splitext(binary_file)[2]

\* the header has been assembled
Assembled == eeprom_metadata # <<>>

\* int.from_bytes(b, "big")
from_bytes(b) == StripZeros(b)

IsAscii(s) == \A i \in 1..Len(s) : s[i] < 128

Spaces(n) == Repeat(32, n)

\* C1: for every payload and every application name, the header that is built
\* and prepended to the payload is exactly 34 bytes long.
C1_HeaderIs34Bytes ==
    Assembled =>
        /\ Len(eeprom_metadata) = 34
        /\ DataTake(eeprom_payload, 34) = Data(eeprom_metadata)

\* C2: for every payload, also one longer than 65535 bytes, building the header
\* raises no error and header bytes 32..33 are len(payload) mod 65536, big-endian.
C2_LengthFieldWraps ==
    /\ ~(pc = "aborted" /\ error = "OverflowError" /\ payload_size_hex = <<>>)
    /\ Assembled =>
         SubSeq(eeprom_metadata, 33, 34) =
            <<(DataLen(payload) % 65536) \div 256, DataLen(payload) % 256>>

\* the name field the claim C3 describes, for the bytes a of the name
name_field_of_claim(a) ==
    IF Len(a) <= 10 THEN a \o Spaces(10 - Len(a)) ELSE Take(a, 10)

\* C3: for every application name A the encoded name field (header bytes
\* 10..19) is exactly 10 bytes and no error is raised: A followed by spaces when
\* A is at most 10 bytes long, the first 10 bytes of A otherwise.
C3_NameFieldIs10Bytes ==
    /\ ~(pc = "aborted" /\ error = "UnicodeEncodeError")
    /\ app_hex # <<>> =>
         /\ Len(unhexlify(app_hex)) = 10
         /\ unhexlify(app_hex) = name_field_of_claim(utf8_encode(application_name))
    /\ Assembled =>
         SubSeq(eeprom_metadata, 11, 20) =
            name_field_of_claim(utf8_encode(application_name))

\* C4: for every payload the CRC32 field (header bytes 28..31, big-endian) is
\* the standard CRC-32 of exactly the payload bytes; the empty payload gives 0
\* and "123456789" gives 0xCBF43926.
C4_CrcFieldIsCrc32 ==
    Assembled =>
        /\ SubSeq(eeprom_metadata, 29, 32) = to_bytes(crc32(payload), 4)
        /\ payload = <<>> => SubSeq(eeprom_metadata, 29, 32) = <<0, 0, 0, 0>>
        /\ payload = Data(CheckVector) =>
             SubSeq(eeprom_metadata, 29, 32) = <<203, 244, 57, 38>>

\* C5: after every successful run the output file holds exactly the header
\* followed by the payload as read, nothing else, so 34 + len(payload) bytes;
\* any previous content is replaced.
C5_OutputIsHeaderPlusPayload ==
    pc = "done" =>
        /\ fs[output_file].exists
        /\ fs[output_file].data = DataCat(Data(eeprom_metadata), payload)
        /\ DataLen(fs[output_file].data) = 34 + DataLen(payload)

\* C6: splitting the first 34 bytes off an image and decoding them by offset
\* gives back the preamble, the normalized name, both timestamps, the CRC32 and
\* the payload length used to build it; the remaining bytes are the payload.
C6_HeaderRoundTrip ==
    pc = "done" =>
        LET image == fs[output_file].data
            header == Plain(DataTake(image, 34))
        IN  /\ Len(header) = 34
            /\ SubSeq(header, 1, 10) = MINIBOOT_HEADER_PREAMBLE
            /\ SubSeq(header, 11, 20) = utf8_encode(app_name)
            /\ from_bytes(SubSeq(header, 21, 24)) = ctime
            /\ from_bytes(SubSeq(header, 25, 28)) = current_epoch
            /\ from_bytes(SubSeq(header, 29, 32)) = crc
            /\ from_bytes(SubSeq(header, 33, 34)) = Digits(DataLen(payload))
            /\ DataDrop(image, 34) = payload

\* the layout of a finished image whose application name is ASCII: the header
\* is 34 bytes, every field sits at its offset and decodes to the value used
LayoutOfAsciiNames ==
    (IsAscii(application_name) /\ pc = "done") =>
        /\ C1_HeaderIs34Bytes
        /\ C3_NameFieldIs10Bytes
        /\ C4_CrcFieldIsCrc32
        /\ C5_OutputIsHeaderPlusPayload
        /\ C6_HeaderRoundTrip

\* the format gate rejects the input
HexRefused == InputExt = ExtHex /\ dont_auto_convert

Unrecognized == InputExt # ExtBin /\ InputExt # ExtHex

\* the header builder was never entered: none of its variables is set
BuilderNotEntered ==
    /\ pc \in {"main", "checked", "aborted"}
    /\ locals = <<<<>>, <<>>, <<>>, <<>>, <<>>, <<>>, <<>>, <<>>, <<>>, <<>>,
                  <<>>, <<>>, <<>>>>
    /\ read_path = <<>>
    /\ stdout = <<>>

\* C7: when the format gate rejects the input the run fails (ValueError for a
\* .hex input with conversion disallowed, TypeError for an extension that is
\* neither .bin nor .hex), the converter is not invoked, no file is created or
\* opened for writing and the header builder is never entered.
C7_GateRejection ==
    (HexRefused \/ Unrecognized) =>
        /\ BuilderNotEntered
        /\ subrun_calls = 0
        /\ write_opens = 0
        /\ fs = fs0
        /\ HexRefused => pc \in {"main", "aborted"}
        /\ pc = "aborted" =>
             error = (IF HexRefused THEN "ValueError" ELSE "TypeError")
        /\ pc # "main" => (error # "none" \/ (Unrecognized /\ ~is_valid))

C7_Witness ==
    /\ HexRefused
    /\ pc = "aborted"
    /\ error = "ValueError"
    /\ fs0[binary_file].exists
    /\ ~fs[output_file].exists

\* C8 as stated: the output file is opened only after the complete image has
\* been assembled, and every run that aborts with an error leaves the output
\* path without a newly created or partially written file.
C8_NoPartialWrite ==
    /\ write_opens > 0 =>
         (Assembled /\ eeprom_payload = DataCat(Data(eeprom_metadata), payload))
    /\ pc = "aborted" => fs[output_file] = fs0[output_file]

\* C8 amended: the output file is opened only after the complete image has been
\* assembled; until that open the run does not touch the output path, except
\* that the converter writes it when it is the converter's own output file; a
\* run that aborts after the open (the write fails) leaves the output file
\* empty or holding a proper prefix of the image.
C8_OpenAfterAssembly ==
    /\ write_opens > 0 =>
         /\ Assembled
         /\ eeprom_payload = DataCat(Data(eeprom_metadata), payload)
         /\ pc \in {"write", "print", "done", "aborted"}
    /\ write_opens = 0 =>
         \/ fs[output_file] = fs0[output_file]
         \/ /\ subrun_calls = 1
            /\ output_file = splitext(binary_file)[1] \o ExtBin
    /\ (pc = "aborted" /\ write_opens > 0) =>
         /\ error = "OSError"
         /\ fs[output_file].exists
         /\ DataLen(fs[output_file].data) < DataLen(eeprom_payload)
         /\ fs[output_file].data =
              DataTake(eeprom_payload, DataLen(fs[output_file].data))

C8_Witness ==
    /\ pc = "aborted"
    /\ error = "OSError"
    /\ write_opens = 1
    /\ fs0[output_file].exists
    /\ fs[output_file].data # fs0[output_file].data
    /\ fs[output_file].data # <<>>

\* header computation (size, CRC, name, timestamps) starts once the payload has
\* been read
ComputationStarted == read_path # <<>>

\* C9 as stated: every error of a run (missing or unreadable input,
\* unrecognized extension, disallowed conversion, converter failure, unwritable
\* output path) is detected before any header computation begins.
C9_ErrorsBeforeComputation ==
    (pc = "aborted"
     /\ error \in {"FileNotFoundError", "PermissionError", "TypeError",
                   "ValueError", "CalledProcessError", "OSError"})
        => ~ComputationStarted

\* C9 amended: a missing or unreadable input, an unrecognized extension, a
\* disallowed conversion and a converter failure are detected before any header
\* computation begins and abort the run; once header computation has started
\* the run can abort only with OverflowError (the payload length or a timestamp
\* does not fit its field) or UnicodeEncodeError (the name) during it, and with
\* the failure to open or to write the output file after it.
C9_InputErrorsBeforeComputation ==
    /\ (Unrecognized \/ HexRefused) => (~ComputationStarted /\ pc # "done")
    /\ (InputExt = ExtBin /\ ~fs0[binary_file].readable) =>
         (~ComputationStarted /\ pc # "done")
    /\ error \in {"TypeError", "ValueError", "CalledProcessError"} =>
         ~ComputationStarted
    /\ (subrun_calls = 1 /\ ~is_valid) => ~ComputationStarted
    /\ (pc = "aborted" /\ ~ComputationStarted) =>
         /\ error \in {"FileNotFoundError", "PermissionError", "TypeError",
                       "ValueError", "CalledProcessError"}
         /\ payload_size_hex = <<>> /\ crc_hex = <<>> /\ app_hex = <<>>
         /\ ctime_hex = <<>> /\ epoch_hex = <<>> /\ ~Assembled
         /\ write_opens = 0
    /\ (pc = "aborted" /\ ComputationStarted) =>
         \/ /\ error \in {"OverflowError", "UnicodeEncodeError"}
            /\ ~Assembled
            /\ write_opens = 0
         \/ /\ error \in {"PermissionError", "FileNotFoundError"}
            /\ Assembled
            /\ ~CanOpenWrite(fs[output_file])
            /\ write_opens = 0
         \/ /\ error = "OSError"
            /\ Assembled
            /\ write_opens = 1

C9_Witness ==
    /\ pc = "aborted"
    /\ error = "PermissionError"
    /\ ComputationStarted
    /\ Assembled
    /\ fs = fs0

\* C10: the converter is invoked at most once: exactly once, and before the
\* header builder starts, iff the input is .hex and conversion is permitted; a
\* .bin input is passed on unchanged without converter; when the converter
\* fails the run aborts without entering the header builder or creating the
\* output file; on success the header builder reads the converted sibling file
\* (stem + ".bin"), never the .hex file.
C10_ConverterOnce ==
    /\ subrun_calls <= 1
    /\ pc = "main" => (subrun_calls = 0 /\ BuilderNotEntered)
    /\ pc # "main" =>
         subrun_calls = (IF InputExt = ExtHex /\ ~dont_auto_convert THEN 1 ELSE 0)
    /\ (InputExt = ExtBin /\ pc # "main") => new_filepath = binary_file
    /\ (subrun_calls = 1 /\ ~is_valid) =>
         /\ pc = "aborted"
         /\ error \in {"FileNotFoundError", "CalledProcessError"}
         /\ BuilderNotEntered
         /\ write_opens = 0
         /\ fs = fs0
    /\ (InputExt = ExtHex /\ ComputationStarted) =>
         /\ read_path = splitext(binary_file)[1] \o ExtBin
         /\ read_path # binary_file
         /\ payload # Data(HexText)
    /\ (InputExt = ExtBin /\ ComputationStarted) => read_path = binary_file

C10_Witness ==
    /\ InputExt = ExtHex
    /\ ~dont_auto_convert
    /\ pc = "done"
    /\ subrun_calls = 1
    /\ read_path = FwBin
    /\ fs[output_file].data = DataCat(Data(eeprom_metadata), fs[FwBin].data)
    /\ output_file # FwBin

====
